---- MODULE Spec2Model ----
(***************************************************************************)
(* Model of the campus POI extraction pipeline of                          *)
(* Backend/scripts/extract_campus_pois_final.py.                           *)
(*                                                                         *)
(* Strings that the program inspects character by character (names,        *)
(* keywords) are sequences of one-character strings; tag values, which the *)
(* program only compares for equality, are TLA+ strings.  Coordinates are  *)
(* integers (see round6).                                                  *)
(***************************************************************************)
EXTENDS Integers, Sequences, FiniteSets, TLC

VARIABLES
    pc,            \* position of the run
    polygon,       \* sequence of <<lon, lat>> pairs
    point,         \* <<lon, lat>> handed to point_in_polygon
    pipResult,     \* outcome of point_in_polygon
    tags,          \* tag mapping handed to categorize_poi
    name,          \* display name handed to categorize_poi / generate_keywords
    category,      \* result of categorize_poi
    keywords,      \* result of generate_keywords
    elements,      \* raw element list (result of extract_pois)
    pois,          \* result of process_elements
    stats,         \* the stats dict of process_elements
    pipCalls,      \* points process_elements handed to point_in_polygon
    runs,          \* number of completed process_elements calls
    prevPois,      \* result of the previous process_elements call
    error,         \* exception that ended the run, or "none"
    hashSeed,      \* the interpreter's string hash seed (fixes set order)
    loadOutcome,   \* how load_polygon_from_geojson ended
    fetchOutcome,  \* how requests.post / response.json ended
    httpPosts,     \* the HTTP requests issued (the bbox of each)
    outputFile,    \* <<>> while not written, else << the document >>
    schedule,      \* the content of schedule.json
    original       \* schedule.json as it was before the scripts ran

vars == << pc, polygon, point, pipResult, tags, name, category, keywords,
           elements, pois, stats, pipCalls, runs, prevPois, error, hashSeed,
           loadOutcome, fetchOutcome, httpPosts, outputFile, schedule,
           original >>

None == "None"

(***************************************************************************)
(* Characters and strings                                                  *)
(***************************************************************************)
UpperChars == << "A","B","C","D","E","F","G","H","I","J","K","L","M",
                 "N","O","P","Q","R","S","T","U","V","W","X","Y","Z" >>

LowerChars == << "a","b","c","d","e","f","g","h","i","j","k","l","m",
                 "n","o","p","q","r","s","t","u","v","w","x","y","z" >>

\* str.lower() of one character
LowerChar(c) ==
    IF \E i \in 1..Len(UpperChars) : UpperChars[i] = c
    THEN LowerChars[CHOOSE i \in 1..Len(UpperChars) : UpperChars[i] = c]
    ELSE c

\* str.lower()
lower(s) == [i \in 1..Len(s) |-> LowerChar(s[i])]

\* frag in s
Contains(s, frag) ==
    \E i \in 0..(Len(s) - Len(frag)) :
        \A j \in 1..Len(frag) : s[i + j] = frag[j]

\* any(x in s for x in frags)
AnyIn(frags, s) == \E k \in 1..Len(frags) : Contains(s, frags[k])

\* s.startswith(prefix)
StartsWith(s, prefix) ==
    /\ Len(s) >= Len(prefix)
    /\ \A j \in 1..Len(prefix) : s[j] = prefix[j]

\* dict.get(key, default)
Get(d, key, default) == IF key \in DOMAIN d THEN d[key] ELSE default

\* truth value of d.get(key) for a string-valued key
Truthy(d, key) == key \in DOMAIN d /\ d[key] /= ""

(***************************************************************************)
(* categorize_poi: the name fragments of each rule                         *)
(***************************************************************************)
ResidentialNames ==
    << <<"k","o","l","e","j">>,
       <<"h","o","s","t","e","l">>,
       <<"a","s","r","a","m","a">>,
       <<"k","t","f">>,
       <<"k","t","r">>,
       <<"k","t","h","o">>,
       <<"k","t","d","i">>,
       <<"k","t","c">>,
       <<"k","d","s","e">> >>

AcademicNames ==
    << <<"f","a","k","u","l","t","i">>,
       <<"f","a","c","u","l","t","y">>,
       <<"d","e","w","a","n">>,
       <<"l","e","c","t","u","r","e">>,
       <<"t","u","t","o","r","i","a","l">> >>

LibraryNames ==
    << <<"p","e","r","p","u","s","t","a","k","a","a","n">>,
       <<"p","s","z">> >>

DiningNames ==
    << <<"c","a","f","e">>,
       <<"k","a","f","e">>,
       <<"a","r","k","e","d">>,
       <<"r","e","s","t","o","r","a","n">>,
       <<"k","a","n","t","i","n">>,
       <<"c","a","f","e","t","e","r","i","a">>,
       <<"m","c","d">>,
       <<"m","c","d","o","n","a","l","d">>,
       <<"b","u","r","g","e","r"," ","k","i","n","g">>,
       <<"k","f","c">> >>

ShoppingNames ==
    << <<"m","a","r","t">>,
       <<"k","e","d","a","i">>,
       <<"s","h","o","p">>,
       <<"s","t","o","r","e">>,
       <<"7","-","e","l","e","v","e","n">>,
       <<"9","9"," ","s","p","e","e","d","m","a","r","t">> >>

SportsNames ==
    << <<"s","t","a","d","i","u","m">>,
       <<"g","y","m">>,
       <<"k","o","l","a","m">>,
       <<"p","o","o","l">>,
       <<"c","o","u","r","t">>,
       <<"p","a","d","a","n","g">>,
       <<"f","i","t","n","e","s","s">> >>

ReligiousNames ==
    << <<"m","a","s","j","i","d">>,
       <<"s","u","r","a","u">>,
       <<"m","o","s","q","u","e">>,
       <<"m","u","s","o","l","l","a">>,
       <<"c","h","a","p","e","l">>,
       <<"t","e","m","p","l","e">> >>

HealthcareNames ==
    << <<"k","l","i","n","i","k">>,
       <<"c","l","i","n","i","c">>,
       <<"h","o","s","p","i","t","a","l">>,
       <<"f","a","r","m","a","s","i">>,
       <<"p","h","a","r","m","a","c","y">>,
       <<"h","e","a","l","t","h">> >>

BankingNames ==
    << <<"b","a","n","k">>,
       <<"a","t","m">>,
       <<"c","i","m","b">>,
       <<"m","a","y","b","a","n","k">>,
       <<"r","h","b">> >>

AdministrativeNames ==
    << <<"p","e","j","a","b","a","t">>,
       <<"o","f","f","i","c","e">>,
       <<"a","d","m","i","n">>,
       <<"c","a","n","s","e","l","o","r","i">>,
       <<"b","u","r","s","a","r","y">> >>

ResidentialBuildings == {"dormitory", "hostel", "residential"}
AcademicBuildings == {"university", "college", "school", "academic"}
AcademicAmenities == {"university", "college", "library"}
DiningAmenities == {"cafe", "restaurant", "fast_food", "food_court"}
ShoppingShops == {"convenience", "supermarket", "general", "kiosk", "mall"}
SportsLeisures == {"sports_centre", "stadium", "swimming_pool", "pitch",
                   "track", "fitness_centre"}
HealthcareAmenities == {"clinic", "hospital", "pharmacy", "doctors"}
BankingAmenities == {"bank", "atm"}

\* categorize_poi from the SPORTS rule to the end of the function
categorize_from_sports(tgs, name_lower) ==
    LET building == Get(tgs, "building", "")
        amenity == Get(tgs, "amenity", "")
        leisure == Get(tgs, "leisure", "")
    IN  IF leisure \in SportsLeisures THEN "sports"
        ELSE IF AnyIn(SportsNames, name_lower) THEN "sports"
        ELSE IF amenity = "place_of_worship" THEN "religious"
        ELSE IF AnyIn(ReligiousNames, name_lower) THEN "religious"
        ELSE IF amenity \in HealthcareAmenities THEN "healthcare"
        ELSE IF AnyIn(HealthcareNames, name_lower) THEN "healthcare"
        ELSE IF amenity \in BankingAmenities THEN "banking"
        ELSE IF AnyIn(BankingNames, name_lower) THEN "banking"
        ELSE IF Get(tgs, "highway", None) = "bus_stop"
                \/ Truthy(tgs, "public_transport") THEN "transit"
        ELSE IF Truthy(tgs, "office")
                \/ AnyIn(AdministrativeNames, name_lower) THEN "administrative"
        ELSE IF amenity = "parking" THEN "parking"
        ELSE IF building /= "" THEN "building"
        ELSE "other"

\* A plausible slip: the SHOPPING rules placed ahead of the DINING rules.
categorize_from_dining_shop_first(tgs, name_lower) ==
    LET amenity == Get(tgs, "amenity", "")
        shop == Get(tgs, "shop", "")
    IN  IF shop \in ShoppingShops THEN "shopping"
        ELSE IF AnyIn(ShoppingNames, name_lower) THEN "shopping"
        ELSE IF amenity \in DiningAmenities THEN "dining"
        ELSE IF AnyIn(DiningNames, name_lower) THEN "dining"
        ELSE categorize_from_sports(tgs, name_lower)

\* categorize_poi from the DINING rule on
categorize_from_dining(tgs, name_lower) ==
    LET amenity == Get(tgs, "amenity", "")
        shop == Get(tgs, "shop", "")
    IN  IF amenity \in DiningAmenities THEN "dining"
        ELSE IF AnyIn(DiningNames, name_lower) THEN "dining"
        ELSE IF shop \in ShoppingShops THEN "shopping"
        ELSE IF AnyIn(ShoppingNames, name_lower) THEN "shopping"
        ELSE categorize_from_sports(tgs, name_lower)

categorize_poi(tgs, nm) ==
    LET building == Get(tgs, "building", "")
        amenity == Get(tgs, "amenity", "")
        name_lower == lower(nm)
    IN  IF building \in ResidentialBuildings THEN "residential"
        ELSE IF AnyIn(ResidentialNames, name_lower) THEN "residential"
        ELSE IF building \in AcademicBuildings THEN "academic"
        ELSE IF amenity \in AcademicAmenities THEN "academic"
        ELSE IF AnyIn(AcademicNames, name_lower) THEN "academic"
        ELSE IF amenity = "library"
                \/ Contains(name_lower, LibraryNames[1])
                \/ Contains(name_lower, LibraryNames[2]) THEN "library"
        ELSE categorize_from_dining(tgs, name_lower)

(***************************************************************************)
(* point_in_polygon                                                        *)
(*                                                                         *)
(* xinters is kept as the exact fraction num/den.  On integer inputs of    *)
(* this size the float expression of the source compares with x exactly as *)
(* the fraction does: an exact quotient is exactly representable, and an   *)
(* inexact one differs from every integer by at least 1/den.               *)
(***************************************************************************)
Min(a, b) == IF a < b THEN a ELSE b
Max(a, b) == IF a > b THEN a ELSE b

Unset == [set |-> FALSE, num |-> 0, den |-> 1]

\* A plausible slip: both ends of the latitude interval exclusive.
InLatitudeRangeOpen(y, p1y, p2y) == y > Min(p1y, p2y) /\ y < Max(p1y, p2y)

\* A plausible slip: both ends of the latitude interval inclusive.
InLatitudeRangeClosed(y, p1y, p2y) == y >= Min(p1y, p2y) /\ y <= Max(p1y, p2y)

\* if y > min(p1y, p2y): if y <= max(p1y, p2y):
InLatitudeRange(y, p1y, p2y) == y > Min(p1y, p2y) /\ y <= Max(p1y, p2y)

\* the three nested conditions that guard the intercept code
ReachesIntercept(x, y, p1, p2) ==
    /\ InLatitudeRange(y, p1[2], p2[2])
    /\ x <= Max(p1[1], p2[1])

\* xinters = (y - p1y) * (p2x - p1x) / (p2y - p1y) + p1x
Intercept(y, p1, p2) ==
    [set |-> TRUE,
     num |-> (y - p1[2]) * (p2[1] - p1[1]) + p1[1] * (p2[2] - p1[2]),
     den |-> p2[2] - p1[2]]

\* x <= xinters
LeqIntercept(x, xi) ==
    IF xi.den > 0 THEN x * xi.den <= xi.num ELSE x * xi.den >= xi.num

\* one iteration of the loop over the edges (p1, p2)
pip_edge(st, x, y, p2) ==
    LET p1 == st.p1
        reach == ReachesIntercept(x, y, p1, p2)
        horizontal == p1[2] = p2[2]
        xinters == IF reach /\ ~horizontal THEN Intercept(y, p1, p2)
                   ELSE st.xinters
        compares == reach /\ p1[1] /= p2[1]     \* `x <= xinters` is evaluated
        raises == compares /\ ~xinters.set
        flips == reach /\ (p1[1] = p2[1]
                           \/ (xinters.set /\ LeqIntercept(x, xinters)))
    IN  IF st.error /= "none" THEN st
        ELSE [inside |-> IF flips THEN ~st.inside ELSE st.inside,
              p1 |-> p2,
              xinters |-> xinters,
              horizontalCompared |-> st.horizontalCompared
                                       \/ (compares /\ horizontal),
              error |-> IF raises THEN "UnboundLocalError" ELSE "none"]

RECURSIVE pip_loop(_, _, _, _, _)
pip_loop(st, x, y, poly, i) ==
    IF i > Len(poly) THEN st
    ELSE pip_loop(pip_edge(st, x, y, poly[(i % Len(poly)) + 1]),
                  x, y, poly, i + 1)

\* The whole call: .inside is the return value when .error = "none";
\* .horizontalCompared records whether an edge with p1y = p2y evaluated
\* `x <= xinters`.
point_in_polygon(pt, poly) ==
    IF Len(poly) = 0
    THEN [inside |-> FALSE, p1 |-> <<0, 0>>, xinters |-> Unset,
          horizontalCompared |-> FALSE, error |-> "IndexError"]
    ELSE pip_loop([inside |-> FALSE, p1 |-> poly[1], xinters |-> Unset,
                   horizontalCompared |-> FALSE, error |-> "none"],
                  pt[1], pt[2], poly, 1)

(***************************************************************************)
(* generate_keywords                                                       *)
(***************************************************************************)
\* \s of the pattern (the ASCII white space characters of the model)
Whitespace == {" ", "\t", "\n", "\r"}

\* the character class [\s/,\-()]
Delimiters == Whitespace \cup {"/", ",", "-", "(", ")"}

\* re.split(r'[\s/,\-()]+', s): a run of delimiters ends the current
\* piece, so a leading or trailing run leaves an empty piece.
RECURSIVE re_split_from(_, _, _, _, _)
re_split_from(s, i, words, cur, inRun) ==
    IF i > Len(s) THEN Append(words, cur)
    ELSE IF s[i] \in Delimiters
         THEN IF inRun THEN re_split_from(s, i + 1, words, cur, TRUE)
              ELSE re_split_from(s, i + 1, Append(words, cur), <<>>, TRUE)
         ELSE re_split_from(s, i + 1, words, Append(cur, s[i]), FALSE)

re_split(s) == re_split_from(s, 1, <<>>, <<>>, FALSE)

Range(f) == {f[i] : i \in DOMAIN f}

Reverse(q) == [i \in 1..Len(q) |-> q[Len(q) + 1 - i]]

\* q without the later copies of an element
RECURSIVE Dedup(_)
Dedup(q) ==
    IF q = <<>> THEN <<>>
    ELSE LET front == Dedup(SubSeq(q, 1, Len(q) - 1))
             last == q[Len(q)]
         IN  IF last \in Range(front) THEN front ELSE Append(front, last)

\* list(set(q)): the elements of q once each.  The order in which a set of
\* str is iterated is fixed by the interpreter's hash seed, which is drawn
\* when the process starts; the model has two seeds, giving two orders.
list_set(q, seed) == IF seed = 0 THEN Dedup(q) ELSE Reverse(Dedup(q))

\* A plausible slip: the acronym is appended whatever its length.
acronym_keywords_unchecked(words) ==
    IF Len(words) > 1
    THEN LET nonempty == SelectSeq(words, LAMBDA w : w /= <<>>)
         IN  << [i \in 1..Len(nonempty) |-> LowerChar(nonempty[i][1])] >>
    ELSE <<>>

\* the "Add acronym" block: the keywords it appends (none or one)
acronym_keywords(words) ==
    IF Len(words) > 1
    THEN LET nonempty == SelectSeq(words, LAMBDA w : w /= <<>>)
             acronym == [i \in 1..Len(nonempty) |->
                            LowerChar(nonempty[i][1])]
         IN  IF Len(acronym) > 1 THEN << acronym >> ELSE <<>>
    ELSE <<>>

Unnamed == <<"U","n","n","a","m","e","d">>

generate_keywords(nm, seed) ==
    IF nm = <<>> \/ StartsWith(nm, Unnamed) THEN <<>>
    ELSE LET words == re_split(nm)
             kept == SelectSeq(words, LAMBDA w : w /= <<>> /\ Len(w) > 1)
             kws == [i \in 1..Len(kept) |-> lower(kept[i])]
         IN  list_set(kws \o acronym_keywords(words), seed)

(***************************************************************************)
(* process_elements                                                        *)
(***************************************************************************)
\* the characters of each category label, for f"Unnamed {category}"
CategoryText ==
    [ residential |-> <<"r","e","s","i","d","e","n","t","i","a","l">>,
      academic |-> <<"a","c","a","d","e","m","i","c">>,
      library |-> <<"l","i","b","r","a","r","y">>,
      dining |-> <<"d","i","n","i","n","g">>,
      shopping |-> <<"s","h","o","p","p","i","n","g">>,
      sports |-> <<"s","p","o","r","t","s">>,
      religious |-> <<"r","e","l","i","g","i","o","u","s">>,
      healthcare |-> <<"h","e","a","l","t","h","c","a","r","e">>,
      banking |-> <<"b","a","n","k","i","n","g">>,
      transit |-> <<"t","r","a","n","s","i","t">>,
      administrative |-> <<"a","d","m","i","n","i","s","t","r","a","t","i","v","e">>,
      parking |-> <<"p","a","r","k","i","n","g">>,
      building |-> <<"b","u","i","l","d","i","n","g">>,
      other |-> <<"o","t","h","e","r">> ]

\* dict.get(key) as an optional value: <<>> is None, <<v>> is v
GetOpt(d, key) == IF key \in DOMAIN d THEN << d[key] >> ELSE <<>>

\* round(v, 6) for v in units of 1e-7 degree: the nearest multiple of 10,
\* a tie going to the even sixth decimal
round6(v) ==
    LET q == v \div 10
        r == v % 10
    IN  IF r < 5 THEN 10 * q
        ELSE IF r > 5 THEN 10 * (q + 1)
        ELSE IF q % 2 = 0 THEN 10 * q ELSE 10 * (q + 1)

\* A plausible slip: a node without lat/lon falls back to its center.
resolve_coordinates_center_fallback(elem) ==
    IF elem["type"] \in {"node", "way", "relation"}
       /\ "center" \in DOMAIN elem /\ "lat" \notin DOMAIN elem
    THEN [lat |-> GetOpt(elem["center"], "lat"),
          lon |-> GetOpt(elem["center"], "lon")]
    ELSE IF elem["type"] = "node"
    THEN [lat |-> GetOpt(elem, "lat"), lon |-> GetOpt(elem, "lon")]
    ELSE [lat |-> <<>>, lon |-> <<>>]

\* the "Get coordinates" block (elem has a "type")
resolve_coordinates(elem) ==
    IF elem["type"] = "node"
    THEN [lat |-> GetOpt(elem, "lat"), lon |-> GetOpt(elem, "lon")]
    ELSE IF elem["type"] \in {"way", "relation"} /\ "center" \in DOMAIN elem
    THEN [lat |-> GetOpt(elem["center"], "lat"),
          lon |-> GetOpt(elem["center"], "lon")]
    ELSE [lat |-> <<>>, lon |-> <<>>]

\* A plausible slip: parking is dropped whether or not it has a name.
pruned_any_parking(cat, nm, tgs) ==
    \/ cat = "parking"
    \/ cat = "other" /\ nm = <<>> /\ ~Truthy(tgs, "building")

\* the two "Skip ..." conditions
pruned(cat, nm, tgs) ==
    \/ cat = "parking" /\ nm = <<>>
    \/ cat = "other" /\ nm = <<>> /\ ~Truthy(tgs, "building")

PassThroughTags == {"amenity", "building", "cuisine", "shop", "leisure"}

\* the "Create POI object" .. "Generate keywords" blocks (elem has an "id")
make_poi(elem, lat, lon, tgs, nm, cat, seed) ==
    LET base == [id |-> << elem["type"], "_", elem["id"] >>,
                 osmId |-> elem["id"],
                 osmType |-> elem["type"],
                 name |-> IF nm /= <<>> THEN nm
                          ELSE Unnamed \o <<" ">> \o CategoryText[cat],
                 category |-> cat,
                 lat |-> round6(lat),
                 lon |-> round6(lon),
                 keywords |-> generate_keywords(nm, seed)]
        copied == {k \in PassThroughTags : Truthy(tgs, k)}
    IN  base @@ [k \in copied |-> tgs[k]]

\* A plausible slip: the result list outlives the call (a module-level
\* list, or a mutable default argument), so a call starts from the POIs
\* of the one before.
process_elements_start_shared ==
    [pois |-> pois,
     stats |-> [total |-> 0, in_campus |-> 0, filtered_out |-> 0],
     calls |-> <<>>,
     error |-> "none"]

\* the state of the locals at the top of process_elements
process_elements_start ==
    [pois |-> <<>>,
     stats |-> [total |-> 0, in_campus |-> 0, filtered_out |-> 0],
     calls |-> <<>>,
     error |-> "none"]

\* one iteration of the loop over the elements
process_element(st, elem, poly, seed) ==
    IF st.error /= "none" THEN st
    ELSE
    LET st1 == [st EXCEPT !.stats.total = @ + 1]
    IN  IF "type" \notin DOMAIN elem THEN [st1 EXCEPT !.error = "KeyError"]
        ELSE
        LET c == resolve_coordinates(elem)
        IN  IF c.lat = <<>> \/ c.lon = <<>> THEN st1
            ELSE
            LET lat == c.lat[1]
                lon == c.lon[1]
                pip == point_in_polygon(<< lon, lat >>, poly)
                st2 == [st1 EXCEPT !.calls = Append(@, << lon, lat >>)]
            IN  IF pip.error /= "none" THEN [st2 EXCEPT !.error = pip.error]
                ELSE IF ~pip.inside
                THEN [st2 EXCEPT !.stats.filtered_out = @ + 1]
                ELSE
                LET st3 == [st2 EXCEPT !.stats.in_campus = @ + 1]
                    tgs == Get(elem, "tags", <<>>)
                    nm == Get(tgs, "name", Get(tgs, "name:en", <<>>))
                    cat == categorize_poi(tgs, nm)
                IN  IF pruned(cat, nm, tgs) THEN st3
                    ELSE IF "id" \notin DOMAIN elem
                    THEN [st3 EXCEPT !.error = "KeyError"]
                    ELSE [st3 EXCEPT !.pois =
                            Append(@, make_poi(elem, lat, lon, tgs, nm,
                                               cat, seed))]

RECURSIVE process_loop(_, _, _, _, _)
process_loop(st, elems, poly, seed, i) ==
    IF i > Len(elems) THEN st
    ELSE process_loop(process_element(st, elems[i], poly, seed),
                      elems, poly, seed, i + 1)

\* The whole call: .pois is the return value and .stats the printed
\* statistics when .error = "none"; .calls are the points handed to
\* point_in_polygon, in order.
process_elements(elems, poly, seed) ==
    process_loop(process_elements_start, elems, poly, seed, 1)

(***************************************************************************)
(* Inputs of the point_in_polygon runs                                     *)
(***************************************************************************)
GridMax == 2
MaxVerts == 4

\* polygon vertices lie on the even grid points; test points are all grid
\* points of the vertex range, one column to its left and right and one
\* row above it
Vertices == {<< 2 * a, 2 * b >> : a \in 0..GridMax, b \in 0..GridMax}
TestPoints == {<< a, b >> : a \in -1..(2 * GridMax + 1),
                            b \in 0..(2 * GridMax + 1)}

\* twice the signed area of the triangle a, b, c
Cross(a, b, c) ==
    (b[1] - a[1]) * (c[2] - a[2]) - (b[2] - a[2]) * (c[1] - a[1])

Succ(poly, i) == poly[(i % Len(poly)) + 1]

\* every other vertex lies strictly on side sgn of every edge
ConvexWith(poly, sgn) ==
    \A i \in 1..Len(poly) : \A j \in 1..Len(poly) :
        (j /= i /\ j /= (i % Len(poly)) + 1)
            => sgn * Cross(poly[i], Succ(poly, i), poly[j]) > 0

IsConvex(poly) == Len(poly) >= 3 /\ (ConvexWith(poly, 1) \/ ConvexWith(poly, -1))

Orientation(poly) == IF ConvexWith(poly, 1) THEN 1 ELSE -1

StrictlyInside(pt, poly) ==
    \A i \in 1..Len(poly) :
        Orientation(poly) * Cross(poly[i], Succ(poly, i), pt) > 0

StrictlyOutside(pt, poly) ==
    \E i \in 1..Len(poly) :
        Orientation(poly) * Cross(poly[i], Succ(poly, i), pt) < 0

\* the convex polygons of 3..MaxVerts vertices, and every vertex list of
\* up to three vertices, degenerate ones (repeated or collinear vertices,
\* horizontal edges) included
IsPolygon(p) ==
    \E n \in 1..MaxVerts :
        /\ p \in [1..n -> Vertices]
        /\ n <= 3 \/ IsConvex(p)

NotRun ==
    [inside |-> FALSE, p1 |-> <<0, 0>>, xinters |-> Unset,
     horizontalCompared |-> FALSE, error |-> "not run"]

ZeroStats == [total |-> 0, in_campus |-> 0, filtered_out |-> 0]

PipIdle == point = <<0, 0>> /\ pipResult = NotRun
CatIdle == tags = <<>> /\ category = ""
KwIdle == keywords = <<>>
ProcIdle ==
    /\ elements = <<>> /\ pois = <<>> /\ stats = ZeroStats
    /\ pipCalls = <<>> /\ runs = 0 /\ prevPois = <<>>
MainIdle ==
    /\ loadOutcome = "none" /\ fetchOutcome = "none"
    /\ httpPosts = <<>> /\ outputFile = <<>>
FridayIdle == schedule = <<>> /\ original = <<>>

(***************************************************************************)
(* SpecPip: one call of point_in_polygon                                   *)
(***************************************************************************)
InitPip ==
    /\ pc = "pip_call"
    /\ \E n \in 1..MaxVerts : \E p \in [1..n -> Vertices] :
           /\ n <= 3 \/ IsConvex(p)
           /\ polygon = p
    /\ point \in TestPoints
    /\ pipResult = NotRun
    /\ name = <<>> /\ error = "none" /\ hashSeed = 0
    /\ CatIdle /\ KwIdle /\ ProcIdle /\ MainIdle /\ FridayIdle

PointInPolygon ==
    /\ pc = "pip_call"
    /\ pipResult' = point_in_polygon(point, polygon)
    /\ pc' = "pip_done"
    /\ UNCHANGED << schedule, original, polygon, point, tags, name, category, keywords, elements,
                    pois, stats, pipCalls, runs, prevPois, error, hashSeed,
                    loadOutcome, fetchOutcome, httpPosts, outputFile >>

NextPip == PointInPolygon

SpecPip == InitPip /\ [][NextPip]_vars

\* C4: for a convex polygon of at least 3 vertices, point_in_polygon
\* returns true for every point strictly inside it and false for every
\* point strictly outside it, test points level with a vertex included.
C4_ConvexVerdict ==
    (pc = "pip_done" /\ IsConvex(polygon)) =>
        /\ pipResult.error = "none"
        /\ StrictlyInside(point, polygon) => pipResult.inside
        /\ StrictlyOutside(point, polygon) => ~pipResult.inside

LevelWithVertex(pt, poly) == \E i \in 1..Len(poly) : poly[i][2] = pt[2]

C4_Witness ==
    /\ pc = "pip_done" /\ IsConvex(polygon) /\ Len(polygon) = 4
    /\ StrictlyInside(point, polygon) /\ LevelWithVertex(point, polygon)
    /\ pipResult.inside

HasHorizontalEdgeAt(pt, poly) ==
    \E i \in 1..Len(poly) :
        /\ poly[i][2] = Succ(poly, i)[2]
        /\ poly[i][1] /= Succ(poly, i)[1]
        /\ pt[2] = poly[i][2]
        /\ pt[1] <= Max(poly[i][1], Succ(poly, i)[1])

\* C9 (as amended): no call of point_in_polygon evaluates `x <= xinters`
\* for an edge with p1y = p2y, and no call reads xinters before it is set:
\* every xinters that is compared was computed for the edge at hand.
C9_NoHorizontalCompare ==
    pc = "pip_done" =>
        /\ ~pipResult.horizontalCompared
        /\ pipResult.error = "none"

C9_Witness ==
    /\ pc = "pip_done"
    /\ HasHorizontalEdgeAt(point, polygon)
    /\ ~pipResult.horizontalCompared

\* C9 (as claimed): some polygon and test point make an edge with
\* p1y = p2y reach the comparison `x <= xinters`.
C9_SomeHorizontalCompare ==
    /\ IsPolygon(polygon) /\ point \in TestPoints
    /\ \E n \in 1..MaxVerts : \E poly \in [1..n -> Vertices] :
           /\ n <= 3 \/ IsConvex(poly)
           /\ \E pt \in TestPoints :
                  point_in_polygon(pt, poly).horizontalCompared

(***************************************************************************)
(* SpecCat: one call of categorize_poi                                     *)
(***************************************************************************)
Absent == "<absent>"

\* the mapping with the keys of r whose value is not Absent
MkTags(r) == [k \in {k \in DOMAIN r : r[k] /= Absent} |-> r[k]]

\* per tag: absent, a value of each list that names it (every value, for
\* amenity) and an unlisted one
BuildingValues == {Absent, "dormitory", "university", "yes"}
AmenityValues ==
    {Absent, "toilets", "parking", "place_of_worship"}
        \cup AcademicAmenities \cup DiningAmenities
        \cup HealthcareAmenities \cup BankingAmenities
ShopValues == {Absent, "supermarket", "bakery"}
LeisureValues == {Absent, "pitch", "park"}
HighwayValues == {Absent, "bus_stop", "crossing"}
PublicTransportValues == {Absent, "platform"}
OfficeValues == {Absent, "", "university"}

PSZName == <<"P","e","r","p","u","s","t","a","k","a","a","n"," ","S","u","l","t","a","n","a","h"," ","Z","a","n","a","r","i","a","h">>

CatNames ==
    { <<>>,
      <<"M","e","n","a","r","a">>,
      <<"K","O","L","E","J"," ","T","U","A","H">>,
      <<"k","o","l","e","j"," ","t","u","a","h">>,
      <<"D","e","w","a","n"," ","S","u","l","t","a","n">>,
      <<"P","S","Z">>,
      <<"K","a","f","e">>,
      <<"K","e","d","a","i">>,
      <<"G","y","m">>,
      <<"S","u","r","a","u">>,
      <<"K","l","i","n","i","k">>,
      <<"C","I","M","B">>,
      <<"P","e","j","a","b","a","t">>,
      <<"F","o","o","d"," ","C","o","u","r","t">>,
      <<"P","e","r","p","u","s","t","a","k","a","a","n"," ","S","u","l","t","a","n","a","h"," ","Z","a","n","a","r","i","a","h">> }

InitCat ==
    /\ pc = "cat_call"
    /\ \E b \in BuildingValues, a \in AmenityValues, s \in ShopValues,
          l \in LeisureValues, h \in HighwayValues,
          t \in PublicTransportValues, o \in OfficeValues :
           tags = MkTags([building |-> b, amenity |-> a, shop |-> s,
                          leisure |-> l, highway |-> h,
                          public_transport |-> t, office |-> o])
    /\ name \in CatNames
    /\ category = ""
    /\ polygon = <<>> /\ error = "none" /\ hashSeed = 0
    /\ PipIdle /\ KwIdle /\ ProcIdle /\ MainIdle /\ FridayIdle

CategorizePoi ==
    /\ pc = "cat_call"
    /\ category' = categorize_poi(tags, name)
    /\ pc' = "cat_done"
    /\ UNCHANGED << schedule, original, polygon, point, pipResult, tags, name, keywords, elements,
                    pois, stats, pipCalls, runs, prevPois, error, hashSeed,
                    loadOutcome, fetchOutcome, httpPosts, outputFile >>

NextCat == CategorizePoi

SpecCat == InitCat /\ [][NextCat]_vars

\* The rule table the precedence claim speaks of: the label of each rule,
\* in order, and the condition under which it applies.
RuleLabels ==
    << "residential", "academic", "library", "dining", "shopping", "sports",
       "religious", "healthcare", "banking", "transit", "administrative",
       "parking", "building", "other" >>

HasValue(tgs, key, values) == key \in DOMAIN tgs /\ tgs[key] \in values

RuleHolds(i, tgs, nm) ==
    LET n == lower(nm)
    IN  CASE i = 1 -> HasValue(tgs, "building", ResidentialBuildings)
                      \/ AnyIn(ResidentialNames, n)
          [] i = 2 -> HasValue(tgs, "building", AcademicBuildings)
                      \/ HasValue(tgs, "amenity", AcademicAmenities)
                      \/ AnyIn(AcademicNames, n)
          [] i = 3 -> HasValue(tgs, "amenity", {"library"})
                      \/ AnyIn(LibraryNames, n)
          [] i = 4 -> HasValue(tgs, "amenity", DiningAmenities)
                      \/ AnyIn(DiningNames, n)
          [] i = 5 -> HasValue(tgs, "shop", ShoppingShops)
                      \/ AnyIn(ShoppingNames, n)
          [] i = 6 -> HasValue(tgs, "leisure", SportsLeisures)
                      \/ AnyIn(SportsNames, n)
          [] i = 7 -> HasValue(tgs, "amenity", {"place_of_worship"})
                      \/ AnyIn(ReligiousNames, n)
          [] i = 8 -> HasValue(tgs, "amenity", HealthcareAmenities)
                      \/ AnyIn(HealthcareNames, n)
          [] i = 9 -> HasValue(tgs, "amenity", BankingAmenities)
                      \/ AnyIn(BankingNames, n)
          [] i = 10 -> HasValue(tgs, "highway", {"bus_stop"})
                       \/ Truthy(tgs, "public_transport")
          [] i = 11 -> Truthy(tgs, "office") \/ AnyIn(AdministrativeNames, n)
          [] i = 12 -> HasValue(tgs, "amenity", {"parking"})
          [] i = 13 -> Truthy(tgs, "building")
          [] OTHER -> TRUE

FirstRule(tgs, nm) ==
    CHOOSE i \in 1..Len(RuleLabels) :
        /\ RuleHolds(i, tgs, nm)
        /\ \A j \in 1..(i - 1) : ~RuleHolds(j, tgs, nm)

CafeAndSupermarket(tgs, nm) ==
    /\ HasValue(tgs, "amenity", {"cafe"})
    /\ HasValue(tgs, "shop", {"supermarket"})
    /\ \A j \in 1..3 : ~RuleHolds(j, tgs, nm)

\* C2: categorize_poi returns the label of the first rule, in the order
\* residential, academic, library, dining, shopping, sports, religious,
\* healthcare, banking, transit, administrative, parking, building, other,
\* whose condition holds; an element tagged amenity=cafe and
\* shop=supermarket that matches no earlier rule is dining.
C2_FirstRuleWins ==
    pc = "cat_done" =>
        /\ category = RuleLabels[FirstRule(tags, name)]
        /\ CafeAndSupermarket(tags, name) => category = "dining"

C2_Witness ==
    /\ pc = "cat_done"
    /\ CafeAndSupermarket(tags, name)
    /\ category = "dining"

(***************************************************************************)
(* SpecKw: one call of generate_keywords                                   *)
(***************************************************************************)
MaxNameLen == 4

\* an upper-case letter, a lower-case letter, and three delimiters
KwAlphabet == {"A", "b", " ", "-", "("}

FKEName == <<"F","a","k","u","l","t","i"," ","K","e","j","u","r","u","t","e","r","a","a","n"," ","E","l","e","k","t","r","i","k">>

UnnamedBuilding == <<"U","n","n","a","m","e","d"," ","b","u","i","l","d","i","n","g">>

ArkedName == <<"A","r","k","e","d"," ","M","e","r","a","n","t","i"," ","/"," ","K","a","f","e"," ","(","A",")">>

KwNames ==
    UNION {[1..n -> KwAlphabet] : n \in 0..MaxNameLen}
        \cup {FKEName, UnnamedBuilding, ArkedName, PSZName}

InitKw ==
    /\ pc = "kw_call"
    /\ name \in KwNames
    /\ hashSeed \in {0, 1}
    /\ keywords = <<>>
    /\ polygon = <<>> /\ error = "none"
    /\ PipIdle /\ CatIdle /\ ProcIdle /\ MainIdle /\ FridayIdle

GenerateKeywords ==
    /\ pc = "kw_call"
    /\ keywords' = generate_keywords(name, hashSeed)
    /\ pc' = "kw_done"
    /\ UNCHANGED << schedule, original, polygon, point, pipResult, tags, name, category, elements,
                    pois, stats, pipCalls, runs, prevPois, error, hashSeed,
                    loadOutcome, fetchOutcome, httpPosts, outputFile >>

NextKw == GenerateKeywords

SpecKw == InitKw /\ [][NextKw]_vars

\* The tokens of a name, as the claim describes them: the maximal runs of
\* characters that are not delimiters, given by their first positions.
IsDelim(s, i) == s[i] \in Delimiters

TokenStarts(s) ==
    {i \in 1..Len(s) : ~IsDelim(s, i) /\ (i = 1 \/ IsDelim(s, i - 1))}

TokenEnd(s, i) ==
    CHOOSE e \in i..Len(s) :
        /\ \A k \in i..e : ~IsDelim(s, k)
        /\ e = Len(s) \/ IsDelim(s, e + 1)

Token(s, i) == SubSeq(s, i, TokenEnd(s, i))

\* the k-th token start, counting from the left
NthStart(s, k) ==
    CHOOSE i \in TokenStarts(s) :
        Cardinality({j \in TokenStarts(s) : j <= i}) = k

Acronym(s) ==
    [k \in 1..Cardinality(TokenStarts(s)) |-> LowerChar(s[NthStart(s, k)])]

ExpectedKeywords(s) ==
    {lower(Token(s, i)) : i \in {j \in TokenStarts(s) : Len(Token(s, j)) > 1}}
        \cup (IF Cardinality(TokenStarts(s)) > 1 /\ Len(Acronym(s)) > 1
              THEN {Acronym(s)} ELSE {})

\* C7: for a non-empty name that does not start with "Unnamed", the set of
\* keywords is the lower-cased tokens longer than one character, plus the
\* acronym of the tokens' first letters when there is more than one token;
\* "Fakulti Kejuruteraan Elektrik" gives {fakulti, kejuruteraan, elektrik,
\* fke}; a name with a single token, whatever delimiters surround it, gets
\* no acronym.
C7_KeywordSet ==
    (pc = "kw_done" /\ name /= <<>> /\ ~StartsWith(name, Unnamed)) =>
        /\ Range(keywords) = ExpectedKeywords(name)
        /\ name = FKEName =>
               Range(keywords) = { <<"f","a","k","u","l","t","i">>,
                                   <<"k","e","j","u","r","u","t","e","r","a","a","n">>,
                                   <<"e","l","e","k","t","r","i","k">>,
                                   <<"f","k","e">> }
        /\ Cardinality(TokenStarts(name)) <= 1 =>
               \A k \in Range(keywords) :
                   \E i \in TokenStarts(name) : k = lower(Token(name, i))

\* a name whose split leaves an empty piece at both ends
C7_Witness ==
    /\ pc = "kw_done"
    /\ name = << "(", "A", "b", "-" >>
    /\ keywords = << << "a", "b" >> >>

(***************************************************************************)
(* Inputs of the process_elements runs                                     *)
(***************************************************************************)
\* two campus boundaries, as (lon, lat) vertex lists
CampusSquare == << <<0, 0>>, <<40, 0>>, <<40, 40>>, <<0, 40>> >>
CampusTriangle == << <<0, 0>>, <<40, 0>>, <<0, 40>> >>
CampusPolygons == {CampusSquare, CampusTriangle}

\* coordinate dicts: inside both boundaries, inside the square only,
\* outside both, and incomplete ones
InBoth == [lat |-> 15, lon |-> 12]
InSquare == [lat |-> 30, lon |-> 30]
Outside == [lat |-> 15, lon |-> 55]
LonOnly == [lon |-> 12]
LatOnly == [lat |-> 15]

\* the element skeletons: every way the "Get coordinates" block can go
Skeletons ==
    { [type |-> "node"] @@ InBoth,
      [type |-> "node"] @@ InSquare,
      [type |-> "node"] @@ Outside,
      [type |-> "node"] @@ LonOnly,
      [type |-> "node"] @@ LatOnly,
      [type |-> "node", center |-> InBoth],
      [type |-> "way", center |-> InBoth],
      [type |-> "way", center |-> Outside],
      [type |-> "way"],
      [type |-> "way", center |-> LonOnly],
      [type |-> "way"] @@ InBoth,
      [type |-> "relation", center |-> InSquare],
      [type |-> "relation", center |-> LatOnly],
      [type |-> "area"] @@ InBoth }

KafeName == <<"K","a","f","e"," ","S","i","s","w","a">>

ParkirName == <<"P","a","r","k","i","r"," ","U","t","a","m","a">>

InfoName == <<"I","n","f","o">>

DewanName == <<"D","e","w","a","n">>

KTFName == <<"K","T","F"," ","(","K","0","1",")">>

UnnamedParking == <<"U","n","n","a","m","e","d"," ","p","a","r","k","i","n","g">>

\* tag mappings: one unnamed element of every category an unnamed element
\* can have, named ones, and the ways a name can be present
TagSamples ==
    { <<>>,
      [amenity |-> "library", name |-> PSZName],
      [amenity |-> "parking"],
      [amenity |-> "parking", name |-> ParkirName],
      [amenity |-> "parking", building |-> "yes"],
      [building |-> "yes"],
      [building |-> ""],
      [building |-> "dormitory"],
      [building |-> "university", name |-> FKEName],
      [building |-> "dormitory", name |-> KTFName],
      [amenity |-> "cafe", shop |-> "supermarket", cuisine |-> "malay"]
          @@ ("name:en" :> KafeName),
      [amenity |-> "cafe"],
      [shop |-> "kiosk"],
      [leisure |-> "pitch"],
      [amenity |-> "place_of_worship"],
      [amenity |-> "clinic"],
      [amenity |-> "atm"],
      [highway |-> "bus_stop"],
      [office |-> "yes"],
      [amenity |-> "toilets"],
      [tourism |-> "information", name |-> InfoName],
      [name |-> <<>>] @@ ("name:en" :> DewanName),
      [name |-> UnnamedParking, amenity |-> "parking"] }

\* every skeleton with every tag mapping, with and without "tags" and "id",
\* and an element without "type"
ElemAll ==
    {sk @@ [id |-> 101, tags |-> tg] : sk \in Skeletons, tg \in TagSamples}
        \cup {sk @@ [id |-> 101] : sk \in Skeletons}
        \cup {sk @@ [tags |-> tg] : sk \in Skeletons, tg \in TagSamples}
        \cup {[id |-> 101, tags |-> tg] @@ InBoth : tg \in TagSamples}

\* the elements the longer lists are made of
ElemCore ==
    << [type |-> "node", id |-> 1, tags |-> [amenity |-> "library",
                                             name |-> PSZName]] @@ InBoth,
       [type |-> "way", id |-> 2, tags |-> [amenity |-> "parking"],
        center |-> InBoth],
       [type |-> "way", id |-> 3, tags |-> [building |-> "yes"],
        center |-> InSquare],
       [type |-> "node", id |-> 4,
        tags |-> [amenity |-> "cafe", shop |-> "supermarket"]
                    @@ ("name:en" :> KafeName)] @@ InSquare,
       [type |-> "node", id |-> 5, tags |-> [name |-> InfoName]] @@ Outside,
       [type |-> "way", id |-> 6, tags |-> [building |-> "university",
                                            name |-> FKEName]],
       [type |-> "node", id |-> 7, center |-> InBoth],
       [type |-> "relation", id |-> 8,
        tags |-> [building |-> "dormitory", name |-> KTFName],
        center |-> InBoth] >>

MaxElems == 2

ElementLists ==
    {<<>>} \cup {<< e >> : e \in ElemAll}
        \cup UNION {[1..n -> Range(ElemCore)] : n \in 2..MaxElems}

(***************************************************************************)
(* SpecProc: process_elements called MaxRuns times in one process, on the  *)
(* same element list and polygon                                           *)
(***************************************************************************)
MaxRuns == 2

InitProc ==
    /\ pc = "proc_call"
    /\ polygon \in CampusPolygons
    /\ elements \in ElementLists
    /\ hashSeed \in {0, 1}
    /\ pois = <<>> /\ stats = ZeroStats /\ pipCalls = <<>>
    /\ runs = 0 /\ prevPois = <<>>
    /\ name = <<>> /\ error = "none"
    /\ PipIdle /\ CatIdle /\ KwIdle /\ MainIdle /\ FridayIdle

\* a call that returns
ProcessElements ==
    /\ pc = "proc_call" /\ runs < MaxRuns
    /\ LET r == process_elements(elements, polygon, hashSeed)
       IN  /\ r.error = "none"
           /\ pois' = r.pois
           /\ stats' = r.stats
           /\ pipCalls' = r.calls
    /\ prevPois' = pois
    /\ runs' = runs + 1
    /\ UNCHANGED << schedule, original, pc, polygon, point, pipResult, tags, name, category,
                    keywords, elements, error, hashSeed, loadOutcome,
                    fetchOutcome, httpPosts, outputFile >>

\* a call that raises: nothing is returned
ProcessElementsRaises ==
    /\ pc = "proc_call" /\ runs < MaxRuns
    /\ LET r == process_elements(elements, polygon, hashSeed)
       IN  /\ r.error /= "none"
           /\ error' = r.error
    /\ pc' = "crashed"
    /\ UNCHANGED << schedule, original, polygon, point, pipResult, tags, name, category, keywords,
                    elements, pois, stats, pipCalls, runs, prevPois, hashSeed,
                    loadOutcome, fetchOutcome, httpPosts, outputFile >>

NextProc == ProcessElements \/ ProcessElementsRaises

SpecProc == InitProc /\ [][NextProc]_vars

\* What the claims say of one element, read off the element itself.
HasCoordinate(e) ==
    /\ "type" \in DOMAIN e
    /\ \/ e["type"] = "node" /\ "lat" \in DOMAIN e /\ "lon" \in DOMAIN e
       \/ /\ e["type"] \in {"way", "relation"}
          /\ "center" \in DOMAIN e
          /\ "lat" \in DOMAIN e["center"] /\ "lon" \in DOMAIN e["center"]

CoordinateOf(e) ==
    IF e["type"] = "node" THEN << e["lon"], e["lat"] >>
    ELSE << e["center"]["lon"], e["center"]["lat"] >>

InsidePolygon(e, poly) ==
    HasCoordinate(e) /\ StrictlyInside(CoordinateOf(e), poly)

TagsOf(e) == IF "tags" \in DOMAIN e THEN e["tags"] ELSE <<>>

NameOf(e) ==
    IF "name" \in DOMAIN TagsOf(e) THEN TagsOf(e)["name"]
    ELSE IF "name:en" \in DOMAIN TagsOf(e) THEN TagsOf(e)["name:en"]
    ELSE <<>>

CategoryOf(e) == categorize_poi(TagsOf(e), NameOf(e))

HasBuildingTag(e) ==
    "building" \in DOMAIN TagsOf(e) /\ TagsOf(e)["building"] /= ""

Returned == pc = "proc_call" /\ runs >= 1

\* C1 (as claimed): an element inside the polygon, tagged amenity=library
\* and named "Perpustakaan Sultanah Zanariah", without a building tag,
\* gives exactly one POI, of category "library".
IsPSZLibrary(e) ==
    /\ "amenity" \in DOMAIN TagsOf(e) /\ TagsOf(e)["amenity"] = "library"
    /\ NameOf(e) = PSZName
    /\ "building" \notin DOMAIN TagsOf(e)

C1_LibraryCategory ==
    (/\ Returned
     /\ Len(elements) = 1
     /\ IsPSZLibrary(elements[1])
     /\ InsidePolygon(elements[1], polygon))
        => /\ Len(pois) = 1
           /\ pois[1].category = "library"

\* C3: of the elements inside the polygon, those without a name are
\* dropped when their category is parking, or is other and they have no
\* building tag; every other one is in the output, an unnamed one under the
\* name "Unnamed <category>", a named one under its name.
DroppedByClaim(e) ==
    /\ NameOf(e) = <<>>
    /\ \/ CategoryOf(e) = "parking"
       \/ CategoryOf(e) = "other" /\ ~HasBuildingTag(e)

KeptByClaim(e, poly) == InsidePolygon(e, poly) /\ ~DroppedByClaim(e)

ExpectedName(e) ==
    IF NameOf(e) = <<>>
    THEN Unnamed \o <<" ">> \o CategoryText[CategoryOf(e)]
    ELSE NameOf(e)

C3_Pruning ==
    Returned =>
        LET kept == SelectSeq(elements, LAMBDA e : KeptByClaim(e, polygon))
        IN  /\ Len(pois) = Len(kept)
            /\ \A i \in 1..Len(kept) :
                   /\ pois[i].osmId = kept[i]["id"]
                   /\ pois[i].osmType = kept[i]["type"]
                   /\ pois[i].category = CategoryOf(kept[i])
                   /\ pois[i].name = ExpectedName(kept[i])

\* an unnamed parking lot dropped and an unnamed building kept
C3_Witness ==
    /\ Returned
    /\ elements = << ElemCore[2], ElemCore[3] >>
    /\ polygon = CampusSquare
    /\ Len(pois) = 1
    /\ pois[1].name = UnnamedBuilding

C10_SkippedUncounted ==
    Returned =>
        LET located == SelectSeq(elements, HasCoordinate)
        IN  /\ DOMAIN stats = {"total", "in_campus", "filtered_out"}
            /\ stats.total = Len(elements)
            /\ stats.total - stats.in_campus - stats.filtered_out
                   = Len(elements) - Len(located)
            /\ pipCalls = [i \in 1..Len(located) |-> CoordinateOf(located[i])]
            /\ \A i \in 1..Len(pois) :
                   \E j \in 1..Len(located) :
                       /\ located[j]["id"] = pois[i].osmId
                       /\ located[j]["type"] = pois[i].osmType

\* a node that has only a center, ahead of a located element
C10_Witness ==
    /\ Returned
    /\ elements = << ElemCore[7], ElemCore[5] >>
    /\ stats = [total |-> 2, in_campus |-> 0, filtered_out |-> 1]
    /\ pipCalls = << << 55, 15 >> >>
    /\ pois = <<>>

\* C10 (as claimed): the statistics hold a count of the skipped elements,
\* and total = in_campus + filtered_out + skipped.
C10_SkippedCounted ==
    Returned =>
        /\ "skipped" \in DOMAIN stats
        /\ stats.total
               = stats.in_campus + stats.filtered_out + stats["skipped"]

(***************************************************************************)
(* Spec: one run of main                                                   *)
(***************************************************************************)
\* padding = 0.002 degree, in units of 1e-7 degree
Padding == 20000

SeqMin(q) == CHOOSE v \in Range(q) : \A w \in Range(q) : v <= w
SeqMax(q) == CHOOSE v \in Range(q) : \A w \in Range(q) : v >= w

\* the four numbers of the bbox string (poly is not empty)
get_bbox_from_polygon(poly) ==
    LET lons == [i \in 1..Len(poly) |-> poly[i][1]]
        lats == [i \in 1..Len(poly) |-> poly[i][2]]
    IN  << SeqMin(lats) - Padding, SeqMin(lons) - Padding,
           SeqMax(lats) + Padding, SeqMax(lons) + Padding >>

\* How load_polygon_from_geojson can end: it returns the first ring of the
\* file (which may be empty), the file is missing, or reading, parsing or
\* indexing raises another Exception.
LoadOutcomes == {"ok", "FileNotFoundError", "Exception"}
LoadablePolygons == CampusPolygons \cup {<<>>}

\* A plausible slip: a failed load carries on with a built-in boundary.
load_step_with_fallback(outcome, ring) ==
    IF outcome = "ok" THEN [pc |-> "loaded", polygon |-> ring]
    ELSE [pc |-> "loaded", polygon |-> CampusSquare]

\* Step 1 of main: the try/except around load_polygon_from_geojson
load_step(outcome, ring) ==
    IF outcome = "ok" THEN [pc |-> "loaded", polygon |-> ring]
    ELSE [pc |-> "returned", polygon |-> <<>>]

\* How the request can end: status 200 with a JSON object, a status other
\* than 200, requests.post raising (a timeout among others), status 200
\* with a body response.json() cannot decode, status 200 with JSON that is
\* no object (data.get raises AttributeError).
FetchOutcomes ==
    {"ok", "http_error", "post_raises", "json_raises", "not_an_object"}

\* the try/except of extract_pois: body is data.get("elements", [])
extract_pois(outcome, body) == IF outcome = "ok" THEN body ELSE <<>>

\* A plausible slip: main carries on with an empty element list.
fetch_step_unchecked(elems) == "fetched"

\* `if not elements: return` of main
fetch_step(elems) == IF elems = <<>> THEN "returned" ELSE "fetched"

\* Step 4 of main: the category -> count dict
category_counts(ps) ==
    [c \in {ps[i].category : i \in 1..Len(ps)} |->
        Cardinality({i \in 1..Len(ps) : ps[i].category = c})]

\* Step 5 of main: the document written (extracted_at left out)
output_document(ps) ==
    [total_pois |-> Len(ps),
     categories |-> category_counts(ps),
     locations |-> ps]

Init ==
    /\ pc = "start"
    /\ hashSeed \in {0, 1}
    /\ polygon = <<>> /\ name = <<>> /\ error = "none"
    /\ PipIdle /\ CatIdle /\ KwIdle /\ ProcIdle /\ MainIdle /\ FridayIdle

LoadPolygon ==
    /\ pc = "start"
    /\ \E outcome \in LoadOutcomes, ring \in LoadablePolygons :
           /\ loadOutcome' = outcome
           /\ pc' = load_step(outcome, ring).pc
           /\ polygon' = load_step(outcome, ring).polygon
    /\ UNCHANGED << schedule, original, point, pipResult, tags, name, category, keywords,
                    elements, pois, stats, pipCalls, runs, prevPois, error,
                    hashSeed, fetchOutcome, httpPosts, outputFile >>

\* min() of an empty sequence: get_bbox_from_polygon raises ValueError
BboxRaises ==
    /\ pc = "loaded" /\ polygon = <<>>
    /\ pc' = "crashed"
    /\ error' = "ValueError"
    /\ UNCHANGED << schedule, original, polygon, point, pipResult, tags, name, category, keywords,
                    elements, pois, stats, pipCalls, runs, prevPois, hashSeed,
                    loadOutcome, fetchOutcome, httpPosts, outputFile >>

\* Step 2 of main: the bbox, the one request, and the emptiness check
ExtractPois ==
    /\ pc = "loaded" /\ polygon /= <<>>
    /\ httpPosts' = Append(httpPosts, get_bbox_from_polygon(polygon))
    /\ \E outcome \in FetchOutcomes, body \in ElementLists :
           /\ fetchOutcome' = outcome
           /\ elements' = extract_pois(outcome, body)
           /\ pc' = fetch_step(extract_pois(outcome, body))
    /\ UNCHANGED << schedule, original, polygon, point, pipResult, tags, name, category, keywords,
                    pois, stats, pipCalls, runs, prevPois, error, hashSeed,
                    loadOutcome, outputFile >>

\* Step 3 of main, process_elements returning
FilterAndCategorize ==
    /\ pc = "fetched"
    /\ LET r == process_elements(elements, polygon, hashSeed)
       IN  /\ r.error = "none"
           /\ pois' = r.pois
           /\ stats' = r.stats
           /\ pipCalls' = r.calls
    /\ runs' = runs + 1
    /\ pc' = "processed"
    /\ UNCHANGED << schedule, original, polygon, point, pipResult, tags, name, category, keywords,
                    elements, prevPois, error, hashSeed, loadOutcome,
                    fetchOutcome, httpPosts, outputFile >>

\* Step 3 of main, process_elements raising
FilterAndCategorizeRaises ==
    /\ pc = "fetched"
    /\ LET r == process_elements(elements, polygon, hashSeed)
       IN  /\ r.error /= "none"
           /\ error' = r.error
    /\ pc' = "crashed"
    /\ UNCHANGED << schedule, original, polygon, point, pipResult, tags, name, category, keywords,
                    elements, pois, stats, pipCalls, runs, prevPois, hashSeed,
                    loadOutcome, fetchOutcome, httpPosts, outputFile >>

\* Steps 4 and 5 of main
WriteOutput ==
    /\ pc = "processed"
    /\ outputFile' = << output_document(pois) >>
    /\ pc' = "done"
    /\ UNCHANGED << schedule, original, polygon, point, pipResult, tags, name, category, keywords,
                    elements, pois, stats, pipCalls, runs, prevPois, error,
                    hashSeed, loadOutcome, fetchOutcome, httpPosts >>

\* mkdir or open raising OSError: no document is written
WriteOutputRaises ==
    /\ pc = "processed"
    /\ pc' = "crashed"
    /\ error' = "OSError"
    /\ UNCHANGED << schedule, original, polygon, point, pipResult, tags, name, category, keywords,
                    elements, pois, stats, pipCalls, runs, prevPois, hashSeed,
                    loadOutcome, fetchOutcome, httpPosts, outputFile >>

Next ==
    \/ LoadPolygon
    \/ BboxRaises
    \/ ExtractPois
    \/ FilterAndCategorize
    \/ FilterAndCategorizeRaises
    \/ WriteOutput
    \/ WriteOutputRaises

Spec == Init /\ [][Next]_vars

\* C5: when loading the boundary polygon fails, the run ends there: no
\* HTTP request is ever issued and the output file is never written.
C5_LoadFailureAborts ==
    loadOutcome \in {"FileNotFoundError", "Exception"} =>
        /\ pc = "returned"
        /\ httpPosts = <<>>
        /\ outputFile = <<>>

C5_Witness ==
    /\ loadOutcome = "Exception"
    /\ pc = "returned"
    /\ httpPosts = <<>>

\* C6: when the request ends in a status other than 200 or in an
\* exception (an undecodable body included), extract_pois returns the empty
\* list and main returns without calling process_elements and without
\* writing; the output file is written only in runs in which the polygon
\* was loaded and the fetch returned a non-empty element list.
C6_FetchFailureAborts ==
    /\ fetchOutcome \in FetchOutcomes \ {"ok"} =>
           /\ elements = <<>>
           /\ pc = "returned"
           /\ error = "none"
           /\ runs = 0
           /\ outputFile = <<>>
    /\ outputFile /= <<>> =>
           /\ loadOutcome = "ok"
           /\ fetchOutcome = "ok"
           /\ elements /= <<>>

C6_Witness ==
    /\ fetchOutcome = "json_raises"
    /\ pc = "returned"
    /\ Len(httpPosts) = 1
    /\ outputFile = <<>>

(***************************************************************************)
(* apply_friday_logic.py and undo_friday_logic.py                          *)
(*                                                                         *)
(* A schedule is the sequence of its routes; a route has a sequence of     *)
(* services; a service has a service_id, a sequence of days and a sequence *)
(* of trips; a trip has a sequence of times, each a string "HH:MM" kept as *)
(* its characters.                                                         *)
(***************************************************************************)
\* the characters of a time, in code point order
TimeChars == << "0", "1", "2", "3", "4", "5", "6", "7", "8", "9", ":" >>

CharCode(c) == CHOOSE i \in 1..Len(TimeChars) : TimeChars[i] = c

\* a < b on str: at the first difference, or a is a proper prefix of b
StrLess(a, b) ==
    \/ \E i \in 1..Min(Len(a), Len(b)) :
           /\ \A j \in 1..(i - 1) : a[j] = b[j]
           /\ CharCode(a[i]) < CharCode(b[i])
    \/ /\ Len(a) < Len(b)
       /\ \A j \in 1..Len(a) : a[j] = b[j]

T1240 == <<"1","2",":","4","0">>
T1400 == <<"1","4",":","0","0">>

\* t < "12:40" or t >= "14:00"
keeps_time(tm) == StrLess(tm, T1240) \/ ~StrLess(tm, T1400)

\* the times filter of one trip
filter_trip(trip) ==
    [trip EXCEPT !.times = SelectSeq(@, keeps_time)]

\* the second loop of apply_friday_logic, on one service
filter_friday(service) ==
    IF service.service_id = "FRIDAY"
    THEN [service EXCEPT !.trips =
             [i \in 1..Len(@) |-> filter_trip(@[i])]]
    ELSE service

splits(service) ==
    service.service_id = "WEEKDAY" /\ "friday" \in Range(service.days)

\* [d for d in service['days'] if d != 'friday']
without_friday(service) ==
    [service EXCEPT !.days = SelectSeq(@, LAMBDA d : d /= "friday")]

\* the deep copy made of a split service: trips copied, new id and days
new_friday_service(service) ==
    [without_friday(service) EXCEPT !.service_id = "FRIDAY",
                                    !.days = << "friday" >>]

\* the body of apply_friday_logic's loop, on one route
apply_route(route) ==
    LET services == route.services
        stripped == [i \in 1..Len(services) |->
                        IF splits(services[i])
                        THEN without_friday(services[i]) ELSE services[i]]
        split == SelectSeq(services, splits)
        services_to_add == [i \in 1..Len(split) |->
                               new_friday_service(split[i])]
        extended == stripped \o services_to_add
    IN  [route EXCEPT !.services =
            [i \in 1..Len(extended) |-> filter_friday(extended[i])]]

apply_friday_logic(data) == [r \in 1..Len(data) |-> apply_route(data[r])]

\* position of the first service with this id, 0 when there is none:
\* next((s for s in services if s.get('service_id') == id), None)
first_service(services, id) ==
    IF \E i \in 1..Len(services) : services[i].service_id = id
    THEN CHOOSE i \in 1..Len(services) :
             /\ services[i].service_id = id
             /\ \A j \in 1..(i - 1) : services[j].service_id /= id
    ELSE 0

\* the body of undo_friday_logic's loop, on one route
undo_route(route) ==
    LET services == route.services
        w == first_service(services, "WEEKDAY")
        f == first_service(services, "FRIDAY")
        merged == IF w /= 0 /\ "friday" \notin Range(services[w].days)
                  THEN [services EXCEPT ![w].days = Append(@, "friday")]
                  ELSE services
    IN  IF f /= 0
        THEN [route EXCEPT !.services =
                 SelectSeq(merged, LAMBDA sv : sv.service_id /= "FRIDAY")]
        ELSE [route EXCEPT !.services = merged]

undo_friday_logic(data) == [r \in 1..Len(data) |-> undo_route(data[r])]

(***************************************************************************)
(* SpecFriday: apply_friday_logic.py, then undo_friday_logic.py, run on    *)
(* one schedule.json                                                       *)
(***************************************************************************)
MaxRoutes == 2
MaxServices == 2

TripsA == << [headsign |-> "A",
              times |-> << <<"0","9",":","0","0">>, <<"1","2",":","4","0">>, <<"1","3",":","3","0">>,
                           <<"1","4",":","0","0">> >>] >>
TripsB == << [headsign |-> "B", times |-> << <<"1","2",":","3","9">>, <<"9",":","0","5">> >>] >>

ServiceSamples ==
    { [service_id |-> "WEEKDAY", days |-> << "monday", "friday" >>,
       trips |-> TripsA],
      [service_id |-> "WEEKDAY", days |-> << "monday", "friday" >>,
       trips |-> TripsB],
      [service_id |-> "WEEKDAY", days |-> << "monday" >>, trips |-> TripsA],
      [service_id |-> "WEEKDAY", days |-> << "friday", "monday" >>,
       trips |-> TripsA],
      [service_id |-> "WEEKDAY", days |-> << "friday" >>, trips |-> TripsB],
      [service_id |-> "WEEKEND", days |-> << "saturday" >>, trips |-> TripsA],
      [service_id |-> "WEEKEND", days |-> << "saturday", "friday" >>,
       trips |-> TripsB],
      [service_id |-> "FRIDAY", days |-> << "friday" >>, trips |-> TripsA],
      [service_id |-> "FRIDAY", days |-> << "friday" >>, trips |-> TripsB] }

RouteSamples ==
    {[name |-> "route", services |-> sv] :
        sv \in UNION {[1..n -> ServiceSamples] : n \in 0..MaxServices}}

InitFriday ==
    /\ pc = "friday_start"
    /\ \E n \in 1..MaxRoutes : schedule \in [1..n -> RouteSamples]
    /\ original = schedule
    /\ polygon = <<>> /\ name = <<>> /\ error = "none" /\ hashSeed = 0
    /\ PipIdle /\ CatIdle /\ KwIdle /\ ProcIdle /\ MainIdle

\* one run of apply_friday_logic.py: load, transform, dump
ApplyFridayLogic ==
    /\ pc = "friday_start"
    /\ schedule' = apply_friday_logic(schedule)
    /\ pc' = "friday_applied"
    /\ UNCHANGED << original, polygon, point, pipResult, tags, name, category,
                    keywords, elements, pois, stats, pipCalls, runs, prevPois,
                    error, hashSeed, loadOutcome, fetchOutcome, httpPosts,
                    outputFile >>

\* one run of undo_friday_logic.py: load, transform, dump
UndoFridayLogic ==
    /\ pc = "friday_applied"
    /\ schedule' = undo_friday_logic(schedule)
    /\ pc' = "friday_undone"
    /\ UNCHANGED << original, polygon, point, pipResult, tags, name, category,
                    keywords, elements, pois, stats, pipCalls, runs, prevPois,
                    error, hashSeed, loadOutcome, fetchOutcome, httpPosts,
                    outputFile >>

NextFriday == ApplyFridayLogic \/ UndoFridayLogic

SpecFriday == InitFriday /\ [][NextFriday]_vars

\* the schedules the claim speaks of: no FRIDAY service, and friday last in
\* the days of every WEEKDAY service that lists it
FridayLast(service) ==
    /\ service.days[Len(service.days)] = "friday"
    /\ \A i \in 1..(Len(service.days) - 1) : service.days[i] /= "friday"

RevertibleByClaim(data) ==
    \A r \in 1..Len(data) : \A i \in 1..Len(data[r].services) :
        LET sv == data[r].services[i]
        IN  /\ sv.service_id /= "FRIDAY"
            /\ splits(sv) => FridayLast(sv)

\* C11 (as claimed): on a schedule without FRIDAY services in which every
\* WEEKDAY service that lists friday lists it last, apply_friday_logic
\* followed by undo_friday_logic gives back the original schedule, however
\* many WEEKDAY services a route has.
C11_UndoRevertsApply ==
    (pc = "friday_undone" /\ RevertibleByClaim(original))
        => schedule = original

====
